---- MODULE Spec2Model ----
(***************************************************************************)
(* Bank webhook payment ledger (api/views.py, api/models.py,               *)
(* api/serializers.py).                                                    *)
(*                                                                         *)
(* BankWebhookView.post runs inside transaction.atomic: every statement of *)
(* one request belongs to one database transaction that commits when post  *)
(* returns and rolls back when post raises.  The store is modelled at      *)
(* read-committed isolation: a statement sees the rows committed before it *)
(* started plus the rows of its own transaction; an INSERT that collides   *)
(* with an uncommitted row on a unique index waits for the other           *)
(* transaction to finish; an UPDATE of a row that carries an uncommitted   *)
(* update of another transaction waits as well.                            *)
(*                                                                         *)
(* Amounts and balances are counted in hundredths (DecimalField with       *)
(* decimal_places=2).  An INN is the tuple of its character codes.         *)
(***************************************************************************)
EXTENDS Integers, Sequences, FiniteSets, TLC

\* ---------------------------------------------------------------- bounds
MaxRequests == 3      \* requests received in one behaviour
NumWorkers  == 2      \* requests handled at the same time
MaxAmount   == 1      \* largest amount sent by the bank

\* ------------------------------------------------------ program constants
MinInnLen == 10       \* serializers.py: payer_inn min_length
MaxInnLen == 12       \* serializers.py: payer_inn max_length
MinAmount == 0        \* serializers.py: amount min_value

Workers == 1..NumWorkers

\* ----------------------------------------------------------------- inputs
Fields == {"operation_id", "amount", "payer_inn", "document_number",
           "document_date"}

\* str of n decimal digits: "1234567890..." as character codes
DigitString(n) == [i \in 1..n |-> 48 + (i % 10)]

INN9  == DigitString(9)
INN10 == DigitString(10)
INN11 == DigitString(11)
INN13 == DigitString(13)
INNAlpha == [DigitString(12) EXCEPT ![4] = 97]

InnInputs == {INN9, INN10, INN11, INN13, INNAlpha}

\* operation ids that parse as a UUID, and one string that does not
UUIDs == {"uuid-a", "uuid-b", "uuid-c"}
OperationIdInputs == UUIDs \cup {"not-a-uuid"}

AmountInputs == (0 - 1)..MaxAmount

FullRequests ==
    [operation_id : OperationIdInputs, amount : AmountInputs,
     payer_inn : InnInputs, document_number : {"D1"}, document_date : {"T1"}]

Without(r, field) == [f \in Fields \ {field} |-> r[f]]

\* the request bodies the bank may send: every combination of field values,
\* and a body with one required field left out
RequestInputs ==
    FullRequests \cup
    {Without(CHOOSE r \in FullRequests : TRUE, field) : field \in Fields}

\* ------------------------------------------------------------- validation
\* str.isdigit() on the character codes
IsDigit(value) == Len(value) > 0 /\ \A i \in 1..Len(value) : value[i] \in 48..57

\* serializers.UUIDField
OperationIdValid(v) == v \in UUIDs

\* variant: the amount field without min_value
AmountValidAny(v) == TRUE

\* serializers.DecimalField(min_value=0)
AmountValid(v) == v >= MinAmount

\* serializers.CharField(max_length=12, min_length=10) and validate_payer_inn
PayerInnValid(v) ==
    /\ Len(v) <= MaxInnLen
    /\ Len(v) >= MinInnLen
    /\ IsDigit(v)

\* serializer.is_valid: the five fields are required and each one validates
IsValid(request) ==
    /\ DOMAIN request = Fields
    /\ OperationIdValid(request.operation_id)
    /\ AmountValid(request.amount)
    /\ PayerInnValid(request.payer_inn)

\* ------------------------------------------------------------------ state
VARIABLES
    orgs,          \* table api_organization: rows, committed or not
    payments,      \* table api_payment: rows, committed or not
    pc,            \* per worker: position inside post
    data,          \* per worker: serializer.validated_data
    organization,  \* per worker: the Organization instance held in memory
    payment,       \* per worker: id of the Payment instance created
    resp,          \* per worker: the response of the last request
    nreq,          \* requests received so far
    seen,          \* per worker: the operation_id was committed when the request arrived
    credited,      \* the payments whose transaction committed its balance write
    lastCredit,    \* per INN: balance written by the last committed credit
    query          \* the last answer of OrganizationBalanceView.get, with
                   \* the number of the request it answers

vars == <<orgs, payments, pc, data, organization, payment, resp, nreq,
          seen, credited, lastCredit, query>>

NoData == [operation_id |-> "", amount |-> 0, payer_inn |-> <<>>]
NoOrg  == [id |-> 0, inn |-> <<>>, balance |-> 0]
NoResp == [status |-> "none", cause |-> "none", new_balance |-> 0]
NoQuery == [request |-> 0, inn |-> <<>>, status |-> 0, balance |-> 0]
Never == 0 - 1

\* ---------------------------------------------------------- store helpers
\* rows of the table a statement of worker t sees
OrgVisible(t) == {r \in orgs : r.owner \in {0, t}}
PayVisible(t) == {r \in payments : r.owner \in {0, t}}

\* the committed content of the tables: what a new statement of any other
\* transaction reads
CommittedOrgs ==
    {[id |-> r.id, inn |-> r.inn, balance |-> r.balance] :
        r \in {x \in orgs : x.owner = 0}}
CommittedPayments == {r \in payments : r.owner = 0}

\* balance of row r as worker t reads it
BalanceSeen(r, t) == IF r.lock = t THEN r.pending ELSE r.balance

\* primary key given to the next row of a table
NextId(table) ==
    IF table = {} THEN 1
    ELSE 1 + (CHOOSE m \in {r.id : r \in table} : \A r \in table : r.id <= m)

RECURSIVE SumAmounts(_)
SumAmounts(rows) ==
    IF rows = {} THEN 0
    ELSE LET r == CHOOSE x \in rows : TRUE
         IN r.amount + SumAmounts(rows \ {r})

Init ==
    /\ orgs = {}
    /\ payments = {}
    /\ pc = [t \in Workers |-> "idle"]
    /\ data = [t \in Workers |-> NoData]
    /\ organization = [t \in Workers |-> NoOrg]
    /\ payment = [t \in Workers |-> 0]
    /\ resp = [t \in Workers |-> NoResp]
    /\ nreq = 0
    /\ seen = [t \in Workers |-> FALSE]
    /\ credited = {}
    /\ lastCredit = [i \in InnInputs |-> Never]
    /\ query = NoQuery

\* -------------------------------------------------- transaction.atomic
\* rows left in the tables when the transaction of worker t commits
CommitOrgs(t) ==
    {[r EXCEPT !.owner = IF r.owner = t THEN 0 ELSE r.owner,
               !.balance = IF r.lock = t THEN r.pending ELSE r.balance,
               !.lock = IF r.lock = t THEN 0 ELSE r.lock,
               !.pending = IF r.lock = t THEN 0 ELSE r.pending] : r \in orgs}

CommitPayments(t) ==
    {[r EXCEPT !.owner = IF r.owner = t THEN 0 ELSE r.owner] : r \in payments}

\* variant: the rollback releases the row locks but keeps the inserted rows
RollbackOrgsKeepCreated(t) ==
    {[r EXCEPT !.owner = IF r.owner = t THEN 0 ELSE r.owner,
               !.lock = IF r.lock = t THEN 0 ELSE r.lock,
               !.pending = IF r.lock = t THEN 0 ELSE r.pending] : r \in orgs}

\* rows left in the tables when the transaction of worker t rolls back
RollbackOrgs(t) ==
    {[r EXCEPT !.lock = IF r.lock = t THEN 0 ELSE r.lock,
               !.pending = IF r.lock = t THEN 0 ELSE r.pending]
        : r \in {x \in orgs : x.owner # t}}

\* variant: the error is swallowed inside the atomic block, which commits
RollbackPaymentsSwallowed(t) == CommitPayments(t)

RollbackPayments(t) == {r \in payments : r.owner # t}

\* post raises: "except Exception" turns the error into a ValidationError
\* that leaves the atomic block, which rolls the transaction back
Raise(t, cause) ==
    /\ orgs' = RollbackOrgs(t)
    /\ payments' = RollbackPayments(t)
    /\ pc' = [pc EXCEPT ![t] = "done"]
    /\ resp' = [resp EXCEPT ![t] =
                   [status |-> "error", cause |-> cause, new_balance |-> 0]]
    /\ data' = [data EXCEPT ![t] = NoData]
    /\ organization' = [organization EXCEPT ![t] = NoOrg]
    /\ payment' = [payment EXCEPT ![t] = 0]
    /\ UNCHANGED <<nreq, seen, credited, lastCredit, query>>

\* ---------------------------------------------------------------- actions
\* worker t takes the next request: the first worker that handles none
Free(t) ==
    /\ pc[t] \in {"idle", "done"}
    /\ \A u \in Workers : u < t => pc[u] \notin {"idle", "done"}

\* post is entered: the serializer validates request.data
Begin(t, request) ==
    /\ Free(t)
    /\ nreq < MaxRequests
    /\ nreq' = nreq + 1
    /\ UNCHANGED <<organization, payment>>
    /\ IF IsValid(request)
       THEN /\ pc' = [pc EXCEPT ![t] = "check"]
            /\ data' = [data EXCEPT ![t] =
                           [operation_id |-> request.operation_id,
                            amount |-> request.amount,
                            payer_inn |-> request.payer_inn]]
            /\ resp' = [resp EXCEPT ![t] = NoResp]
            /\ seen' = [seen EXCEPT ![t] =
                           \E p \in CommittedPayments :
                               p.operation_id = request.operation_id]
       ELSE /\ pc' = [pc EXCEPT ![t] = "done"]
            /\ data' = [data EXCEPT ![t] = NoData]
            /\ resp' = [resp EXCEPT ![t] =
                           [status |-> "error", cause |-> "validation",
                            new_balance |-> 0]]
            /\ seen' = [seen EXCEPT ![t] = FALSE]
    /\ UNCHANGED <<orgs, payments, credited, lastCredit, query>>

\* variant: the pre-check also filters on the payer
PaymentExistsSameInn(t, operation_id) ==
    \E p \in PayVisible(t) :
        p.operation_id = operation_id /\ p.payer_inn = data[t].payer_inn

\* Payment.objects.filter(operation_id=operation_id).exists()
PaymentExists(t, operation_id) ==
    \E p \in PayVisible(t) : p.operation_id = operation_id

\* _process_payment: the duplicate pre-check
CheckDuplicate(t) ==
    /\ pc[t] = "check"
    /\ IF PaymentExists(t, data[t].operation_id)
       THEN /\ pc' = [pc EXCEPT ![t] = "done"]
            /\ resp' = [resp EXCEPT ![t] =
                           [status |-> "duplicate", cause |-> "none",
                            new_balance |-> 0]]
            /\ data' = [data EXCEPT ![t] = NoData]
       ELSE /\ pc' = [pc EXCEPT ![t] = "get"]
            /\ UNCHANGED <<resp, data>>
    /\ UNCHANGED <<orgs, payments, organization, payment, nreq, seen,
                   credited, lastCredit, query>>

\* the Organization instance built from row r as worker t reads it
Instance(r, t) == [id |-> r.id, inn |-> r.inn, balance |-> BalanceSeen(r, t)]

\* get_or_create: the lookup
GetOrganization(t) ==
    /\ pc[t] = "get"
    /\ LET found == {r \in OrgVisible(t) : r.inn = data[t].payer_inn}
       IN IF found # {}
          THEN /\ \E r \in found :
                      organization' = [organization EXCEPT ![t] = Instance(r, t)]
               /\ pc' = [pc EXCEPT ![t] = "payment"]
          ELSE /\ pc' = [pc EXCEPT ![t] = "create"]
               /\ UNCHANGED organization
    /\ UNCHANGED <<orgs, payments, data, payment, resp, nreq, seen,
                   credited, lastCredit, query>>

\* variant: Organization.inn without the unique index
InnConflictsNoIndex(inn) == {}

\* unique=True on Organization.inn: rows that collide with an insert of inn
InnConflicts(inn) == {r \in orgs : r.inn = inn}

\* get_or_create: the lookup found nothing, so the row is inserted with the
\* defaults; on IntegrityError the row is fetched again
CreateOrganization(t) ==
    /\ pc[t] = "create"
    /\ LET clash == InnConflicts(data[t].payer_inn)
       IN /\ \A r \in clash : r.owner \in {0, t}
          /\ IF clash # {}
             THEN /\ \E r \in clash :
                         organization' = [organization EXCEPT ![t] = Instance(r, t)]
                  /\ UNCHANGED orgs
             ELSE LET row == [id |-> NextId(orgs), inn |-> data[t].payer_inn,
                              balance |-> 0, owner |-> t, lock |-> 0,
                              pending |-> 0]
                  IN /\ orgs' = orgs \cup {row}
                     /\ organization' = [organization EXCEPT ![t] = Instance(row, t)]
    /\ pc' = [pc EXCEPT ![t] = "payment"]
    /\ UNCHANGED <<payments, data, payment, resp, nreq, seen,
                   credited, lastCredit, query>>

\* variant: the unique index is on a column that all payments share
OperationIdConflictsAnyPayment(operation_id) == payments

\* variant: Payment.operation_id without the unique index
OperationIdConflictsNoIndex(operation_id) == {}

\* unique=True on Payment.operation_id: rows that collide with an insert
OperationIdConflicts(operation_id) ==
    {p \in payments : p.operation_id = operation_id}

\* CheckConstraint payment_amount_non_negative
PaymentConstraint(amount) == amount >= 0

\* variant: post without transaction.atomic, the insert commits at once
PaymentRowAutocommit(t) ==
    [id |-> NextId(payments), operation_id |-> data[t].operation_id,
     amount |-> data[t].amount, payer_inn |-> data[t].payer_inn, owner |-> 0]

\* the row Payment.objects.create(...) inserts; it belongs to the open
\* transaction of worker t until that transaction commits
PaymentRow(t) ==
    [id |-> NextId(payments), operation_id |-> data[t].operation_id,
     amount |-> data[t].amount, payer_inn |-> data[t].payer_inn, owner |-> t]

\* _create_payment: an IntegrityError of the insert leaves post as an error
CreatePayment(t) ==
    /\ pc[t] = "payment"
    /\ LET clash == OperationIdConflicts(data[t].operation_id)
       IN /\ \A p \in clash : p.owner \in {0, t}
          /\ IF clash # {}
             THEN Raise(t, "operation_id_conflict")
             ELSE IF ~PaymentConstraint(data[t].amount)
             THEN Raise(t, "amount_constraint")
             ELSE LET row == PaymentRow(t)
                  IN /\ payments' = payments \cup {row}
                     /\ payment' = [payment EXCEPT ![t] = row.id]
                     /\ pc' = [pc EXCEPT ![t] = "update"]
                     /\ UNCHANGED <<orgs, data, organization, resp, nreq, seen,
                                    credited, lastCredit, query>>

\* variant: the amount replaces the balance
NewBalanceReplace(balance, amount) == amount

\* variant: the amount is taken off the balance
NewBalanceSubtract(balance, amount) == balance - amount

\* organization.balance += amount
NewBalance(balance, amount) == balance + amount

\* variant: save() runs on a second connection, outside the open
\* transaction, and waits for the rows and locks that transaction holds
UpdateOrganizationBalanceOtherConnection(t) ==
    /\ pc[t] = "update"
    /\ LET new == NewBalance(organization[t].balance, data[t].amount)
       IN /\ \A r \in orgs :
                 r.id = organization[t].id => r.owner = 0 /\ r.lock = 0
          /\ orgs' = {IF r.id # organization[t].id THEN r
                      ELSE [r EXCEPT !.balance = new] : r \in orgs}
          /\ organization' = [organization EXCEPT ![t].balance = new]
    /\ pc' = [pc EXCEPT ![t] = "commit"]
    /\ UNCHANGED <<payments, data, payment, resp, nreq, seen,
                   credited, lastCredit, query>>

\* _update_organization_balance: the in-memory balance is increased and
\* save() writes it to the row with the instance's primary key
UpdateOrganizationBalance(t) ==
    /\ pc[t] = "update"
    /\ LET new == NewBalance(organization[t].balance, data[t].amount)
       IN /\ \A r \in orgs : r.id = organization[t].id => r.lock \in {0, t}
          /\ orgs' = {IF r.id # organization[t].id THEN r
                      ELSE IF r.owner = t THEN [r EXCEPT !.balance = new]
                      ELSE [r EXCEPT !.lock = t, !.pending = new] : r \in orgs}
          /\ organization' = [organization EXCEPT ![t].balance = new]
    /\ pc' = [pc EXCEPT ![t] = "commit"]
    /\ UNCHANGED <<payments, data, payment, resp, nreq, seen,
                   credited, lastCredit, query>>

\* post returns the 201 response and the atomic block commits
Commit(t) ==
    /\ pc[t] = "commit"
    /\ orgs' = CommitOrgs(t)
    /\ payments' = CommitPayments(t)
    /\ pc' = [pc EXCEPT ![t] = "done"]
    /\ resp' = [resp EXCEPT ![t] =
                   [status |-> "success", cause |-> "none",
                    new_balance |-> organization[t].balance]]
    /\ credited' = credited \cup
           {[id |-> payment[t], operation_id |-> data[t].operation_id,
             inn |-> organization[t].inn]}
    /\ lastCredit' = [lastCredit EXCEPT ![organization[t].inn] =
                         organization[t].balance]
    /\ data' = [data EXCEPT ![t] = NoData]
    /\ organization' = [organization EXCEPT ![t] = NoOrg]
    /\ payment' = [payment EXCEPT ![t] = 0]
    /\ UNCHANGED <<nreq, seen, query>>

\* the store fails while a write step or the commit is executed
StorageFailure(t) ==
    /\ pc[t] \in {"create", "payment", "update", "commit"}
    /\ Raise(t, "storage")

\* variant: the lookup also sees rows of open transactions
OrganizationLookupDirty(inn) == {r \in orgs : r.inn = inn}

\* get_object_or_404(Organization, inn=inn)
OrganizationLookup(inn) == {r \in CommittedOrgs : r.inn = inn}

\* OrganizationBalanceView.get
GetBalance(inn) ==
    /\ nreq < MaxRequests
    /\ nreq' = nreq + 1
    /\ LET found == OrganizationLookup(inn)
       IN IF found = {}
          THEN query' = [request |-> nreq', inn |-> inn, status |-> 404,
                         balance |-> 0]
          ELSE \E r \in found :
                   query' = [request |-> nreq', inn |-> r.inn, status |-> 200,
                             balance |-> r.balance]
    /\ UNCHANGED <<orgs, payments, pc, data, organization, payment, resp,
                   seen, credited, lastCredit>>

Next ==
    \/ \E t \in Workers, request \in RequestInputs : Begin(t, request)
    \/ \E t \in Workers : CheckDuplicate(t)
    \/ \E t \in Workers : GetOrganization(t)
    \/ \E t \in Workers : CreateOrganization(t)
    \/ \E t \in Workers : CreatePayment(t)
    \/ \E t \in Workers : UpdateOrganizationBalance(t)
    \/ \E t \in Workers : Commit(t)
    \/ \E t \in Workers : StorageFailure(t)
    \/ \E inn \in InnInputs : GetBalance(inn)

Spec == Init /\ [][Next]_vars

\* no request is being handled
Quiet == \A t \in Workers : pc[t] \in {"idle", "done"}

\* requests that do not overlap in time, on a store that does not fail
NextSeq ==
    \/ \E t \in Workers, request \in RequestInputs : Quiet /\ Begin(t, request)
    \/ \E t \in Workers : CheckDuplicate(t)
    \/ \E t \in Workers : GetOrganization(t)
    \/ \E t \in Workers : CreateOrganization(t)
    \/ \E t \in Workers : CreatePayment(t)
    \/ \E t \in Workers : UpdateOrganizationBalance(t)
    \/ \E t \in Workers : Commit(t)
    \/ \E inn \in InnInputs : GetBalance(inn)

SpecSeq == Init /\ [][NextSeq]_vars

\* the request shares neither its operation_id nor its payer_inn with a
\* request that is being handled
Apart(request) ==
    \A u \in Workers :
        pc[u] \notin {"idle", "done"} =>
            /\ "operation_id" \in DOMAIN request =>
                   data[u].operation_id # request.operation_id
            /\ "payer_inn" \in DOMAIN request =>
                   data[u].payer_inn # request.payer_inn

\* concurrent requests with pairwise distinct operation_id and payer_inn,
\* on a store that does not fail
NextApart ==
    \/ \E t \in Workers, request \in RequestInputs :
           Apart(request) /\ Begin(t, request)
    \/ \E t \in Workers : CheckDuplicate(t)
    \/ \E t \in Workers : GetOrganization(t)
    \/ \E t \in Workers : CreateOrganization(t)
    \/ \E t \in Workers : CreatePayment(t)
    \/ \E t \in Workers : UpdateOrganizationBalance(t)
    \/ \E t \in Workers : Commit(t)
    \/ \E inn \in InnInputs : GetBalance(inn)

SpecApart == Init /\ [][NextApart]_vars

\* every request that is being handled keeps running: the server gives each
\* worker its turn, and a worker waits only while the store makes it wait
Step(t) ==
    \/ CheckDuplicate(t)
    \/ GetOrganization(t)
    \/ CreateOrganization(t)
    \/ CreatePayment(t)
    \/ UpdateOrganizationBalance(t)
    \/ Commit(t)

SpecFair == Init /\ [][Next]_vars /\ \A t \in Workers : WF_vars(Step(t))

\* _update_organization_balance on its own: worker 1 holds the instance of
\* a committed Organization and an amount that no serializer has checked
CreditBalances == 0..(MaxAmount + 1)
CreditAmounts == (0 - MaxAmount - 2)..MaxAmount

InitCredit ==
    \E b \in CreditBalances, a \in CreditAmounts, inn \in {INN10, INN11},
       op \in UUIDs :
        /\ orgs = {[id |-> 1, inn |-> inn, balance |-> b, owner |-> 0,
                    lock |-> 0, pending |-> 0]}
        /\ payments = {}
        /\ pc = [t \in Workers |-> IF t = 1 THEN "update" ELSE "idle"]
        /\ data = [t \in Workers |->
                      IF t = 1
                      THEN [operation_id |-> op, amount |-> a, payer_inn |-> inn]
                      ELSE NoData]
        /\ organization = [t \in Workers |->
                              IF t = 1
                              THEN [id |-> 1, inn |-> inn, balance |-> b]
                              ELSE NoOrg]
        /\ payment = [t \in Workers |-> 0]
        /\ resp = [t \in Workers |-> NoResp]
        /\ nreq = 1
        /\ seen = [t \in Workers |-> FALSE]
        /\ credited = {}
        /\ lastCredit = [i \in InnInputs |-> IF i = inn THEN b ELSE Never]
        /\ query = NoQuery

NextCredit ==
    \/ \E t \in Workers : UpdateOrganizationBalance(t)
    \/ \E t \in Workers : Commit(t)
    \/ \E t \in Workers : StorageFailure(t)

SpecCredit == InitCredit /\ [][NextCredit]_vars

\* ------------------------------------------------------------------ claims
PaymentsOf(inn) == {p \in CommittedPayments : p.payer_inn = inn}

\* worker t commits its transaction in this step
Commits(t) == pc[t] = "commit" /\ pc'[t] = "done" /\ resp'[t].status = "success"

\* the request of worker t ends as an error in this step
Fails(t) == pc'[t] = "done" /\ pc[t] # "done" /\ resp'[t].status = "error"

\* committed balance of the Organization with this inn, 0 when there is none
CommittedBalance(inn) ==
    IF \E o \in CommittedOrgs : o.inn = inn
    THEN (CHOOSE o \in CommittedOrgs : o.inn = inn).balance
    ELSE 0

\* C1: in every committed state each Organization's balance equals the sum
\* of the amounts of the committed Payments whose payer_inn is its inn
BalanceEqualsPayments ==
    \A o \in CommittedOrgs : o.balance = SumAmounts(PaymentsOf(o.inn))

\* C2: for every operation_id at most one Payment is ever committed and at
\* most one committed transaction has written a balance on its behalf
OperationIdAppliedOnce ==
    \A op \in UUIDs :
        /\ Cardinality({p \in CommittedPayments : p.operation_id = op}) <= 1
        /\ Cardinality({c \in credited : c.operation_id = op}) <= 1

\* C2 witness: an attempt lost the race for an operation_id that another
\* attempt committed, and exactly one Payment carries it
OperationIdRaceLost ==
    \E t \in Workers :
        /\ resp[t].cause = "operation_id_conflict"
        /\ CommittedPayments # {}
        /\ credited # {}

\* C3: an attempt whose Payment insert hits the operation_id uniqueness
\* conflict answers with the duplicate outcome, not with a failure
UniqueConflictIsDuplicate ==
    \A t \in Workers :
        resp[t].cause = "operation_id_conflict" => resp[t].status = "duplicate"

\* C4: a committed credit raises the committed balance of its Organization
\* by exactly its amount, whatever other ingests ran beside it
NoCreditLost ==
    [][\A t \in Workers, inn \in InnInputs :
          (Commits(t) /\ data[t].payer_inn = inn) =>
              CommittedBalance(inn)' = CommittedBalance(inn) + data[t].amount]_vars

\* C5: in every committed state a Payment is present exactly when the
\* transaction that inserted it has committed its balance write to the
\* Organization with the Payment's payer_inn
PaymentAndCreditTogether ==
    {[id |-> p.id, operation_id |-> p.operation_id, inn |-> p.payer_inn] :
        p \in CommittedPayments} = credited

\* C5 witness: a committed Payment with its credit beside an open
\* transaction that has inserted a Payment and not yet committed
OpenBesideCommitted ==
    /\ \E p \in payments : p.owner # 0
    /\ \E p \in CommittedPayments : \E o \in CommittedOrgs : o.inn = p.payer_inn

\* C6: a request that ends as an error leaves the committed tables as they
\* were and none of its rows or row locks behind; the committed tables
\* change in a step only when a transaction commits with success
FailureLeavesNoTrace ==
    [][/\ \A t \in Workers :
            Fails(t) =>
                /\ CommittedOrgs' = CommittedOrgs
                /\ CommittedPayments' = CommittedPayments
                /\ \A r \in orgs' : r.owner # t /\ r.lock # t
                /\ \A p \in payments' : p.owner # t
       /\ (CommittedOrgs' # CommittedOrgs \/ CommittedPayments' # CommittedPayments)
             => \E t \in Workers : Commits(t)]_vars

\* C6 witness: a request failed in the store after another one was applied,
\* and nothing of the failed one is left
FailedAttemptDone ==
    \E t \in Workers :
        /\ pc[t] = "done"
        /\ resp[t].cause = "storage"
        /\ \A r \in orgs : r.owner = 0 /\ r.lock = 0
        /\ \A p \in payments : p.owner = 0
        /\ Cardinality(CommittedPayments) = 1

\* C7: a request that arrives after a Payment with its operation_id was
\* committed ends at the pre-check as a duplicate, whatever its other
\* fields, and changes no table
CommittedOperationIdIsDuplicate ==
    [][\A t \in Workers :
          (pc[t] = "check" /\ seen[t] /\ pc'[t] # "check") =>
              /\ pc'[t] = "done"
              /\ resp'[t].status = "duplicate"
              /\ orgs' = orgs
              /\ payments' = payments]_vars

\* C7 witness: a request that arrived after the commit of its operation_id
\* was answered as a duplicate
DuplicateAnswered ==
    \E t \in Workers :
        pc[t] = "done" /\ seen[t] /\ resp[t].status = "duplicate"

\* C8: there is never more than one Organization row per inn, and a
\* transaction that created the Organization commits it with a balance
\* equal to the amount of its payment
OneOrganizationPerInn ==
    [][/\ \A a, b \in orgs' : a.inn = b.inn => a = b
       /\ \A t \in Workers :
            (Commits(t) /\ \E r \in orgs : r.owner = t) =>
                \E r \in CommittedOrgs' :
                    r.inn = data[t].payer_inn /\ r.balance = data[t].amount]_vars

\* C8 witness: two open transactions for the same unseen inn, one has
\* inserted the Organization and the other waits to insert it
TwoCreatorsOfOneInn ==
    \E t, u \in Workers :
        /\ t # u
        /\ pc[u] = "create"
        /\ data[u].payer_inn = data[t].payer_inn
        /\ \E r \in orgs : r.owner = t /\ r.inn = data[u].payer_inn

\* C9: every committed Organization balance and every committed Payment
\* amount is greater than or equal to 0
NonNegative ==
    /\ \A o \in CommittedOrgs : o.balance >= 0
    /\ \A p \in CommittedPayments : p.amount >= 0

\* C9 witness: a Payment of amount 0 is committed beside a positive balance
ZeroAmountCommitted ==
    /\ \E p \in CommittedPayments : p.amount = 0
    /\ \E o \in CommittedOrgs : o.balance > 0

\* the balance query is answered in this step
Queried == query'.request # query.request

\* C10: the balance query answers not-found exactly when no Organization
\* with that inn is committed, otherwise it answers that inn with the
\* balance written by the last committed credit, and it changes no table
BalanceQueryCorrect ==
    [][Queried =>
          /\ query'.status = 404 <=> ~(\E o \in CommittedOrgs : o.inn = query'.inn)
          /\ query'.status = 200 => query'.balance = lastCredit[query'.inn]
          /\ orgs' = orgs
          /\ payments' = payments]_vars

\* C10 witness: the query was answered with a positive committed balance
\* while another transaction holds an uncommitted update of that row
QueryBesideOpenUpdate ==
    /\ query.status = 200
    /\ query.balance > 0
    /\ \E r \in orgs : r.inn = query.inn /\ r.lock # 0 /\ r.pending # r.balance

\* the validated request of worker t ends in this step
Ends(t) == pc[t] \notin {"idle", "done"} /\ pc'[t] = "done"

\* C11: when requests do not overlap, a request with a new operation_id is
\* answered success with new_balance equal to the sum of the amounts of the
\* Payments committed for its payer_inn, its own included, and a request
\* with an applied operation_id is answered duplicate with the balance
\* unchanged
SequentialOutcome ==
    [][\A t \in Workers, inn \in InnInputs :
          (Ends(t) /\ data[t].payer_inn = inn) =>
              IF seen[t]
              THEN /\ resp'[t].status = "duplicate"
                   /\ CommittedBalance(inn)' = CommittedBalance(inn)
              ELSE /\ resp'[t].status = "success"
                   /\ resp'[t].new_balance = SumAmounts(PaymentsOf(inn))'
                   /\ \E p \in PaymentsOf(inn)' :
                          p.operation_id = data[t].operation_id]_vars

\* C11 witness: the second payment of one Organization was answered with
\* the sum of both amounts
SecondPaymentAnswered ==
    \E t \in Workers :
        /\ resp[t].status = "success"
        /\ resp[t].new_balance > MaxAmount
        /\ Cardinality(CommittedPayments) = 2

\* C12: a request with amount 0 and a new operation_id is applied like any
\* other: its commit adds a Payment of amount 0 for its payer_inn and leaves
\* the committed balance of that Organization as it was (0 for a new one)
ZeroAmountApplied ==
    [][\A t \in Workers, inn \in InnInputs :
          (Commits(t) /\ data[t].amount = 0 /\ data[t].payer_inn = inn) =>
              /\ \E p \in PaymentsOf(inn)' :
                     p.operation_id = data[t].operation_id /\ p.amount = 0
              /\ CommittedBalance(inn)' = CommittedBalance(inn)]_vars

\* C13: requests that run concurrently with distinct operation_id and
\* distinct payer_inn never contend: no write step of one waits for the
\* other, none ends with a uniqueness conflict, and each works on the
\* committed balance of its own Organization, so that what it commits is
\* that balance plus its amount in every interleaving
DistinctNeverContend ==
    \A t \in Workers :
        /\ pc[t] = "create" => ENABLED CreateOrganization(t)
        /\ pc[t] = "payment" => ENABLED CreatePayment(t)
        /\ pc[t] = "update" => ENABLED UpdateOrganizationBalance(t)
        /\ resp[t].cause # "operation_id_conflict"
        /\ pc[t] \in {"payment", "update"} =>
               organization[t].balance = CommittedBalance(data[t].payer_inn)
        /\ pc[t] = "commit" =>
               organization[t].balance =
                   CommittedBalance(data[t].payer_inn) + data[t].amount

\* C13 witness: two requests with distinct operation_id and payer_inn have
\* both written their balance and neither has committed
TwoApartBeforeCommit ==
    \E t, u \in Workers :
        /\ t # u
        /\ pc[t] = "commit" /\ pc[u] = "commit"
        /\ data[t].payer_inn # data[u].payer_inn
        /\ data[t].operation_id # data[u].operation_id
        /\ data[t].amount > 0 /\ data[u].amount > 0

\* C14: the inn of every Organization and the payer_inn of every Payment is
\* an all-digit string of length exactly 10 or exactly 12
InnTenOrTwelveDigits ==
    /\ \A o \in orgs : IsDigit(o.inn) /\ Len(o.inn) \in {10, 12}
    /\ \A p \in payments : IsDigit(p.payer_inn) /\ Len(p.payer_inn) \in {10, 12}

\* a request body with a missing field, a negative amount, an operation_id
\* that is no UUID, or a payer_inn with a non-digit or of a length below 10
\* or above 12
Malformed(request) ==
    \/ DOMAIN request # Fields
    \/ request.amount < 0
    \/ request.operation_id \notin UUIDs
    \/ ~IsDigit(request.payer_inn)
    \/ Len(request.payer_inn) < 10
    \/ Len(request.payer_inn) > 12

MalformedInputs == {request \in RequestInputs : Malformed(request)}

\* C15: a request that fails input validation is answered with the
\* validation error in the step that receives it, before any statement
\* reaches the store, and leaves both tables as they were
MalformedRejectedFirst ==
    [][nreq' # nreq =>
          \A t \in Workers, request \in MalformedInputs :
              Begin(t, request) =>
                  /\ pc'[t] = "done"
                  /\ resp'[t].status = "error"
                  /\ resp'[t].cause = "validation"
                  /\ orgs' = orgs
                  /\ payments' = payments]_vars

\* C15 witness: a request was rejected by validation while another one had
\* uncommitted rows in the tables
RejectedBesideOpen ==
    \E t \in Workers :
        /\ pc[t] = "done"
        /\ resp[t].cause = "validation"
        /\ \E p \in payments : p.owner # 0
        /\ \E o \in orgs : o.owner # 0

BalanceNeverDecreases ==
    [][\A inn \in InnInputs : CommittedBalance(inn)' >= CommittedBalance(inn)]_vars

\* C18: in every committed state every Organization has at least one
\* committed Payment whose payer_inn is its inn
OrganizationHasPayment ==
    \A o \in CommittedOrgs : PaymentsOf(o.inn) # {}

\* of two requests with one operation_id the loser has ended; the id of the
\* Organization it had inserted for an unseen inn is missing from the table
LoserOrganizationGone ==
    \E t \in Workers :
        /\ nreq = 2
        /\ pc[t] = "done"
        /\ resp[t].cause = "operation_id_conflict"
        /\ \E o \in CommittedOrgs : o.id = 2
        /\ \A o \in orgs : o.id # 1

\* C19: under fair scheduling every request that is being handled ends
\* with exactly one outcome (success, duplicate or error); the waits on the
\* inn index, the operation_id index and the organization row never form a
\* deadlock
EveryRequestEnds ==
    \A t \in Workers :
        (pc[t] \notin {"idle", "done"}) ~>
            (pc[t] = "done" /\ resp[t].status \in {"success", "duplicate", "error"})

\* a worker that holds the inn of its inserted Organization waits for the
\* operation_id that the open transaction of another worker holds
WaitsHoldingInn ==
    \E t \in Workers :
        /\ pc[t] = "payment"
        /\ ~ ENABLED CreatePayment(t)
        /\ \E o \in orgs : o.owner = t

====
